---- MODULE Spec2Model ----
(***************************************************************************)
(* Model of the two extension blocks of the repository:                    *)
(*   - Translator_SX_precipitator (TranslatorDataLeachingSX): build() and  *)
(*     initialize_build()                                                  *)
(*   - CustomCosting (CustomCostingData): cost_custom_vessel()             *)
(*                                                                         *)
(* Numbers.  Python floats are modelled by decimal numbers m * 10^e kept   *)
(* as records [m, e] in canonical form (m not divisible by 10, zero is     *)
(* [0, 0]).  Multiplication is exact while the mantissa fits; division,    *)
(* roots and logarithms round to a few significant digits; log10 is        *)
(* rounded to the nearest hundredth.                                       *)
(***************************************************************************)
EXTENDS Integers, Sequences, FiniteSets, TLC

----------------------------------------------------------------------------
(* Decimal arithmetic standing for Python float arithmetic                 *)

Abs(x) == IF x < 0 THEN -x ELSE x

Sign(x) == IF x < 0 THEN -1 ELSE IF x = 0 THEN 0 ELSE 1

RECURSIVE NumDigits(_)
NumDigits(n) == IF n < 10 THEN 1 ELSE 1 + NumDigits(n \div 10)

RECURSIVE TenTo(_)
TenTo(k) == IF k <= 0 THEN 1 ELSE 10 * TenTo(k - 1)

RECURSIVE Norm(_, _)
Norm(m, e) ==
    IF m = 0 THEN [m |-> 0, e |-> 0]
    ELSE IF Abs(m) % 10 = 0 THEN Norm(Sign(m) * (Abs(m) \div 10), e + 1)
    ELSE [m |-> m, e |-> e]

Dec(m, e) == Norm(m, e)

\* keep at most d leading digits (truncation toward zero)
Trunc(x, d) ==
    LET n == NumDigits(Abs(x.m))
    IN  IF n <= d THEN x
        ELSE Norm(Sign(x.m) * (Abs(x.m) \div TenTo(n - d)), x.e + (n - d))

Mul(a, b) ==
    IF NumDigits(Abs(a.m)) + NumDigits(Abs(b.m)) <= 9
    THEN Norm(a.m * b.m, a.e + b.e)
    ELSE LET a4 == Trunc(a, 4)
             b4 == Trunc(b, 4)
         IN  Norm(a4.m * b4.m, a4.e + b4.e)

\* x with its mantissa widened or cut to exactly d digits, as [m, e] (x # 0)
Scaled(x, d) ==
    LET n == NumDigits(Abs(x.m))
    IN  IF n >= d
        THEN [m |-> Sign(x.m) * (Abs(x.m) \div TenTo(n - d)), e |-> x.e + (n - d)]
        ELSE [m |-> x.m * TenTo(d - n), e |-> x.e - (d - n)]

\* b # 0; the quotient keeps 5 significant digits
Div(a, b) ==
    IF a.m = 0 THEN Dec(0, 0)
    ELSE LET a4 == Scaled(a, 4)
             b4 == Trunc(b, 4)
             q  == (Abs(a4.m) * 100000) \div Abs(b4.m)
         IN  Trunc(Norm(Sign(a4.m) * Sign(b4.m) * q, a4.e - b4.e - 5), 5)

\* order of two positive numbers
DecLeq(a, b) ==
    LET da == NumDigits(a.m)
        db == NumDigits(b.m)
    IN  IF a.e + da # b.e + db THEN a.e + da < b.e + db
        ELSE a.m * TenTo(9 - da) <= b.m * TenTo(9 - db)

RECURSIVE IsqrtIn(_, _, _)
IsqrtIn(n, lo, hi) ==
    IF lo >= hi THEN lo
    ELSE LET mid == (lo + hi + 1) \div 2
         IN  IF mid * mid <= n THEN IsqrtIn(n, mid, hi) ELSE IsqrtIn(n, lo, mid - 1)

\* 10 ** x for x a whole or half number of decades (x = k or k + 1/2)
Pow10(x) ==
    LET twice == Mul(x, Dec(2, 0))
        t     == twice.m * TenTo(twice.e)
        k     == IF t >= 0 THEN t \div 2 ELSE -((1 - t) \div 2)
    IN  IF t - 2 * k = 0 THEN Dec(1, k)
        ELSE Dec(IsqrtIn(1000000000, 1, 40000), k - 4)

\* binary digits of log10 of f / 1000, 1000 <= f < 10000
RECURSIVE LogBits(_, _, _)
LogBits(f, bits, acc) ==
    IF bits = 0 THEN acc
    ELSE LET sq == (f * f) \div 1000
         IN  IF sq >= 10000 THEN LogBits(sq \div 10, bits - 1, 2 * acc + 1)
             ELSE LogBits(sq, bits - 1, 2 * acc)

\* math.log10 of x > 0, rounded to the nearest hundredth
Log10(x) ==
    LET f == Scaled(x, 4)
        b == LogBits(f.m, 10, 0)
    IN  Dec(100 * (f.e + 3) + ((b * 100 + 512) \div 1024), -2)

----------------------------------------------------------------------------
(* Translator_SX_precipitator: state                                       *)

\* largest whole flow value the upstream state block is given
MaxFlow == 2

\* the value of a variable that has none (Python None)
NoValue == [none |-> TRUE]

\* "Assumptions: Steady-state only": the time set has one point
Time == {0}

Species == {"Al", "Ca", "Fe"}

Ions == {"Al^3+", "Ca^2+", "Fe^3+", "H^+", "OH^-"}

FlowValues == {NoValue} \cup {Dec(i, 0) : i \in -1..MaxFlow}

\* units the upstream property package reports flow_vol and flow_mass in
UnitOptions == {[vol |-> "L/s", mass |-> "kg/s"], [vol |-> "m^3/s", mass |-> "g/s"]}

VARIABLES
    in_units,        \* units of the upstream state variables
    properties_in,   \* [t -> [flow_vol, flow_mass[species]]]   upstream values
    properties_out,  \* [t -> [flow_mass, log10_molality_comp[ion]]] downstream values
    components,      \* names of the components build() has declared, in order
    rhs,             \* [constraint name -> [t -> number]] numeric right-hand sides
    build_status,    \* "unbuilt", "built" or the error build() raised
    fixed_in,        \* [upstream state variable -> is it fixed]
    fixed_out,       \* the downstream variables that are fixed
    active,          \* the translator constraints that are active
    free_other,      \* unfixed downstream variables no translator constraint sets
    pc,              \* position of initialize_build ("idle": no call running)
    flags,           \* the token properties_in.initialize returned
    dof_seen,        \* <<what degrees_of_freedom(self) returned at the check>>
    res,             \* termination condition of the solver result
    outcome,         \* how the last call of initialize_build ended
    steps,           \* the calls initialize_build has made, in order
    edits,           \* changes the caller has made to the built block so far
    cost_args,       \* the arguments cost_custom_vessel was called with
    cost_components, \* names of the components declared on the costing block
    number_of_units, \* the Param blk.number_of_units
    cost_rhs,        \* numeric right-hand sides of the two per-unit correlations
    cost_values,     \* [variable of the costing block -> value]
    cost_status,     \* "unbuilt", "built", "solved" or "failed"
    cost_error       \* the exception the last operation on the block raised

tvars == <<in_units, properties_in, properties_out, components, rhs, build_status>>

svars == <<fixed_in, fixed_out, active, free_other, edits>>

ivars == <<pc, flags, dof_seen, res, outcome, steps>>

cvars == <<cost_args, cost_components, number_of_units, cost_rhs, cost_values,
           cost_status, cost_error>>

vars == <<tvars, svars, ivars, cvars>>

mw_al == Dec(2698154, -8)

mw_ca == Dec(3996259, -8)

mw_fe == Dec(5593494, -8)

pH == Dec(25, -1)

Kw == Dec(1, -14)

mw(sp) == IF sp = "Al" THEN mw_al ELSE IF sp = "Ca" THEN mw_ca ELSE mw_fe

MolalityConstraint(sp) ==
    IF sp = "Al" THEN "eq_aluminum_molality"
    ELSE IF sp = "Ca" THEN "eq_calcium_molality" ELSE "eq_iron_molality"

MolarFlowExpression(sp) ==
    IF sp = "Al" THEN "aluminum_molar_flow"
    ELSE IF sp = "Ca" THEN "calcium_molar_flow" ELSE "iron_molar_flow"

\* the downstream variable each constraint has on its left-hand side
ConstraintVar ==
    [c \in {"eq_flow_mass_rule", "eq_aluminum_molality", "eq_calcium_molality",
            "eq_iron_molality", "eq_hydrogen_molality", "eq_hydroxide_molality"} |->
       CASE c = "eq_flow_mass_rule"     -> "flow_mass"
         [] c = "eq_aluminum_molality"  -> "Al^3+"
         [] c = "eq_calcium_molality"   -> "Ca^2+"
         [] c = "eq_iron_molality"      -> "Fe^3+"
         [] c = "eq_hydrogen_molality"  -> "H^+"
         [] c = "eq_hydroxide_molality" -> "OH^-"]

Constraints == DOMAIN ConstraintVar

MolalityConstraints == Constraints \ {"eq_flow_mass_rule"}

\* pyunits.convert between the units the model knows
convert(x, from, to) ==
    IF from = to THEN x
    ELSE IF from = "m^3/s" /\ to = "L/s" THEN Mul(x, Dec(1000, 0))
    ELSE IF from = "g/s" /\ to = "kg/s" THEN Mul(x, Dec(1, -3))
    ELSE x

\* Expression solvent_mass_flow[t], evaluated on the upstream values pin
solvent_mass_flow(pin, units, t) ==
    Mul(convert(pin[t].flow_vol, units.vol, "L/s"), Dec(1840, -3))

\* Expressions aluminum_molar_flow[t], calcium_molar_flow[t], iron_molar_flow[t]
molar_flow(pin, units, sp, t) ==
    Div(convert(pin[t].flow_mass[sp], units.mass, "kg/s"), mw(sp))

\* MolalityRhs that lets a zero ratio through to the logarithm
MolalityRhs_ZeroAccepted(pin, units, sp, t) ==
    IF pin[t].flow_mass[sp] = NoValue \/ pin[t].flow_vol = NoValue
    THEN [err |-> "ValueError: no value", val |-> NoValue]
    ELSE IF solvent_mass_flow(pin, units, t).m = 0
    THEN [err |-> "ZeroDivisionError", val |-> NoValue]
    ELSE LET ratio == Div(molar_flow(pin, units, sp, t), solvent_mass_flow(pin, units, t))
         IN  IF ratio.m < 0
             THEN [err |-> "ValueError: math domain error", val |-> NoValue]
             ELSE [err |-> "none", val |-> Log10(ratio)]

\* what log10(value(molar_flow / solvent_mass_flow)) does: the number it
\* returns, or the exception it raises
MolalityRhs(pin, units, sp, t) ==
    IF pin[t].flow_mass[sp] = NoValue \/ pin[t].flow_vol = NoValue
    THEN [err |-> "ValueError: no value", val |-> NoValue]
    ELSE IF solvent_mass_flow(pin, units, t).m = 0
    THEN [err |-> "ZeroDivisionError", val |-> NoValue]
    ELSE LET ratio == Div(molar_flow(pin, units, sp, t), solvent_mass_flow(pin, units, t))
         IN  IF ratio.m <= 0
             THEN [err |-> "ValueError: math domain error", val |-> NoValue]
             ELSE [err |-> "none", val |-> Log10(ratio)]

\* log10(value(10**(-pH)))
HydrogenRhs == Log10(Pow10(Mul(Dec(-1, 0), pH)))

\* HydroxideRhs with the sign of the exponent dropped: Kw / 10**pH
HydroxideRhs_SignDropped == Log10(Div(Kw, Pow10(pH)))

\* log10(value(Kw / 10**(-pH)))
HydroxideRhs == Log10(Div(Kw, Pow10(Mul(Dec(-1, 0), pH))))

\* the order in which build() declares its components
DeclOrder ==
    <<"solvent_mass_flow", "eq_flow_mass_rule",
      "aluminum_molar_flow", "eq_aluminum_molality",
      "calcium_molar_flow", "eq_calcium_molality",
      "iron_molar_flow", "eq_iron_molality",
      "eq_hydrogen_molality", "eq_hydroxide_molality">>

\* what evaluating the rule of a molality constraint at t gives
RuleRhs(c, pin, units, t) ==
    CASE c = "eq_aluminum_molality"  -> MolalityRhs(pin, units, "Al", t)
      [] c = "eq_calcium_molality"   -> MolalityRhs(pin, units, "Ca", t)
      [] c = "eq_iron_molality"      -> MolalityRhs(pin, units, "Fe", t)
      [] c = "eq_hydrogen_molality"  -> [err |-> "none", val |-> HydrogenRhs]
      [] c = "eq_hydroxide_molality" -> [err |-> "none", val |-> HydroxideRhs]

\* positions of DeclOrder whose rule raises on the upstream values pin
FailingDecls(pin, units) ==
    {i \in 1..Len(DeclOrder) :
        /\ DeclOrder[i] \in MolalityConstraints
        /\ \E t \in Time : RuleRhs(DeclOrder[i], pin, units, t).err # "none"}

Min(S) == CHOOSE x \in S : \A y \in S : x <= y

Range(f) == {f[i] : i \in DOMAIN f}

Unbuilt == [c \in MolalityConstraints |-> [t \in Time |-> NoValue]]

(* build(): declares the expressions and constraints in order.  The rule of *)
(* each molality constraint evaluates log10(value(...)) on the upstream     *)
(* values of that moment and keeps the number; an exception raised by a     *)
(* rule ends build() with the components declared so far left on the block. *)
Build ==
    /\ build_status = "unbuilt"
    /\ LET bad   == FailingDecls(properties_in, in_units)
           last  == IF bad = {} THEN Len(DeclOrder) ELSE Min(bad) - 1
           done  == SubSeq(DeclOrder, 1, last)
           tbad  == Min({t \in Time :
                           RuleRhs(DeclOrder[Min(bad)], properties_in, in_units, t).err # "none"})
       IN  /\ components' = done
           /\ rhs' = [c \in MolalityConstraints |->
                        IF c \in Range(done)
                        THEN [t \in Time |-> RuleRhs(c, properties_in, in_units, t).val]
                        ELSE Unbuilt[c]]
           /\ build_status' =
                 IF bad = {} THEN "built"
                 ELSE RuleRhs(DeclOrder[Min(bad)], properties_in, in_units, tbad).err
    /\ UNCHANGED <<in_units, properties_in, properties_out, svars, ivars, cvars>>

----------------------------------------------------------------------------
(* initialize_build                                                        *)

\* changes (set a value, fix, unfix, activate, deactivate) the caller makes to
\* a built block
MaxEdits == 2

\* most unfixed downstream variables outside the translator's constraints
MaxOther == 1

InVars == {"flow_vol", "flow_mass"}

OutVars == {"flow_mass"} \cup Ions

TerminationConditions == {"optimal", "infeasible", "maxIterations"}

NoFlags == [none |-> TRUE]

Has(seq, x) == \E i \in 1..Len(seq) : seq[i] = x

Count(seq, x) == Cardinality({i \in 1..Len(seq) : seq[i] = x})

\* idaes degrees_of_freedom(self): unfixed variables in active equality
\* constraints minus active equality constraints
degrees_of_freedom ==
    LET outv == {ConstraintVar[c] : c \in active} \ fixed_out
        inv  == IF "eq_flow_mass_rule" \in active /\ ~fixed_in["flow_vol"]
                THEN 1 ELSE 0
    IN  Cardinality(outv) + inv + free_other - Cardinality(active)

\* Target with the molality constraints kept as live relations of the
\* upstream variables
Target_Live(c, pin, units, t) ==
    IF c = "eq_flow_mass_rule" THEN solvent_mass_flow(pin, units, t)
    ELSE RuleRhs(c, pin, units, t).val

\* the downstream value a constraint asks for, given the upstream values
Target(c, pin, units, t) ==
    IF c = "eq_flow_mass_rule" THEN solvent_mass_flow(pin, units, t) ELSE rhs[c][t]

OutValue(pout, v, t) ==
    IF v = "flow_mass" THEN pout[t].flow_mass ELSE pout[t].log10_molality_comp[v]

\* can the active constraints all hold with the fixed variables as they are
Feasible(pout, pin, units) ==
    \A c \in active : \A t \in Time :
        ConstraintVar[c] \in fixed_out =>
            OutValue(pout, ConstraintVar[c], t) = Target(c, pin, units, t)

\* the downstream values after a solve that ended optimal: every unfixed
\* variable of an active constraint takes the constraint's right-hand side
SolveValues(pout, pin, units) ==
    LET byVar(v) == CHOOSE c \in Constraints : ConstraintVar[c] = v
        new(v, t) == IF byVar(v) \in active /\ v \notin fixed_out
                     THEN Target(byVar(v), pin, units, t)
                     ELSE OutValue(pout, v, t)
    IN  [t \in Time |->
           [flow_mass |-> new("flow_mass", t),
            log10_molality_comp |-> [i \in Ions |-> new(i, t)]]]

check_optimal_termination(r) == r = "optimal"

\* lines 239-242: a call starts (logger and solver object are created)
InitializeBuild ==
    /\ pc = "idle"
    /\ build_status = "built"
    /\ pc' = "initialize_in"
    /\ flags' = NoFlags
    /\ dof_seen' = <<>>
    /\ res' = "none"
    /\ outcome' = "running"
    /\ steps' = <<>>
    /\ UNCHANGED <<tvars, svars, cvars>>

\* properties_in.initialize(state_args=state_args_in, hold_state=True): the
\* unfixed state variables take the guesses given, all are fixed, and the
\* token says which were fixed before
InitializeIn ==
    /\ pc = "initialize_in"
    /\ \E state_args_in \in {NoValue, Dec(1, 0), Dec(2, 0)} :
          properties_in' =
             [t \in Time |->
                IF state_args_in = NoValue \/ fixed_in["flow_vol"]
                THEN properties_in[t]
                ELSE [properties_in[t] EXCEPT !.flow_vol = state_args_in]]
    /\ flags' = fixed_in
    /\ fixed_in' = [v \in InVars |-> TRUE]
    /\ steps' = Append(steps, "properties_in.initialize(hold_state=True)")
    /\ pc' = "initialize_out"
    /\ UNCHANGED <<in_units, properties_out, components, rhs, build_status,
                   fixed_out, active, free_other, edits, dof_seen, res, outcome, cvars>>

\* properties_out.initialize(state_args=state_args_out): no hold, so the
\* fixed flags are as before when it returns
InitializeOut ==
    /\ pc = "initialize_out"
    /\ \E state_args_out \in {NoValue, Dec(1, 0)} :
          properties_out' =
             [t \in Time |->
                IF state_args_out = NoValue \/ "flow_mass" \in fixed_out
                THEN properties_out[t]
                ELSE [properties_out[t] EXCEPT !.flow_mass = state_args_out]]
    /\ steps' = Append(steps, "properties_out.initialize")
    /\ pc' = "check_dof"
    /\ UNCHANGED <<in_units, properties_in, components, rhs, build_status,
                   svars, flags, dof_seen, res, outcome, cvars>>

\* CheckDoF with the test written "> 0": an over-constrained block passes
CheckDoF_OnlyPositive ==
    /\ pc = "check_dof"
    /\ dof_seen' = <<degrees_of_freedom>>
    /\ steps' = Append(steps, "degrees_of_freedom")
    /\ IF degrees_of_freedom > 0
       THEN /\ outcome' = "Exception: degrees of freedom were not 0"
            /\ pc' = "idle"
       ELSE /\ outcome' = outcome
            /\ pc' = "solve"
    /\ UNCHANGED <<tvars, svars, flags, res, cvars>>

\* CheckDoF releasing the upstream hold before it raises
CheckDoF_Releases ==
    /\ pc = "check_dof"
    /\ dof_seen' = <<degrees_of_freedom>>
    /\ IF degrees_of_freedom # 0
       THEN /\ outcome' = "Exception: degrees of freedom were not 0"
            /\ fixed_in' = [v \in InVars |-> IF flags[v] THEN fixed_in[v] ELSE FALSE]
            /\ steps' = steps \o <<"degrees_of_freedom", "properties_in.release_state">>
            /\ pc' = "idle"
       ELSE /\ outcome' = outcome
            /\ fixed_in' = fixed_in
            /\ steps' = Append(steps, "degrees_of_freedom")
            /\ pc' = "solve"
    /\ UNCHANGED <<tvars, fixed_out, active, free_other, edits, flags, res, cvars>>

\* lines 261-265
CheckDoF ==
    /\ pc = "check_dof"
    /\ dof_seen' = <<degrees_of_freedom>>
    /\ steps' = Append(steps, "degrees_of_freedom")
    /\ IF degrees_of_freedom # 0
       THEN /\ outcome' = "Exception: degrees of freedom were not 0"
            /\ pc' = "idle"
       ELSE /\ outcome' = outcome
            /\ pc' = "solve"
    /\ UNCHANGED <<tvars, svars, flags, res, cvars>>

\* Solve with the termination check placed before release_state
Solve_RaisesFirst ==
    /\ pc = "solve"
    /\ \E r \in TerminationConditions :
          /\ r = "optimal" => Feasible(properties_out, properties_in, in_units)
          /\ res' = r
          /\ properties_out' =
                IF r = "optimal"
                THEN SolveValues(properties_out, properties_in, in_units)
                ELSE properties_out
          /\ IF r = "optimal"
             THEN pc' = "release_state" /\ outcome' = outcome
             ELSE pc' = "idle" /\ outcome' = "InitializationError"
    /\ steps' = Append(steps, "opt.solve")
    /\ UNCHANGED <<in_units, properties_in, components, rhs, build_status,
                   svars, flags, dof_seen, cvars>>

\* Solve that tries again when the result is not optimal
Solve_Retries ==
    /\ pc = "solve"
    /\ Count(steps, "opt.solve") < 2
    /\ \E r \in TerminationConditions :
          /\ r = "optimal" => Feasible(properties_out, properties_in, in_units)
          /\ res' = r
          /\ properties_out' =
                IF r = "optimal"
                THEN SolveValues(properties_out, properties_in, in_units)
                ELSE properties_out
          /\ pc' = IF r = "optimal" \/ Count(steps, "opt.solve") = 1
                   THEN "release_state" ELSE "solve"
    /\ steps' = Append(steps, "opt.solve")
    /\ UNCHANGED <<in_units, properties_in, components, rhs, build_status,
                   svars, flags, dof_seen, outcome, cvars>>

\* lines 267-268: opt.solve(self)
Solve ==
    /\ pc = "solve"
    /\ \E r \in TerminationConditions :
          /\ r = "optimal" => Feasible(properties_out, properties_in, in_units)
          /\ res' = r
          /\ properties_out' =
                IF r = "optimal"
                THEN SolveValues(properties_out, properties_in, in_units)
                ELSE properties_out
    /\ steps' = Append(steps, "opt.solve")
    /\ pc' = "release_state"
    /\ UNCHANGED <<in_units, properties_in, components, rhs, build_status,
                   svars, flags, dof_seen, outcome, cvars>>

\* line 270: properties_in.release_state(flags): unfix what was not fixed
\* before the hold
ReleaseState ==
    /\ pc = "release_state"
    /\ fixed_in' = [v \in InVars |-> IF flags[v] THEN fixed_in[v] ELSE FALSE]
    /\ steps' = Append(steps, "properties_in.release_state")
    /\ pc' = "check_termination"
    /\ UNCHANGED <<tvars, fixed_out, active, free_other, edits,
                   flags, dof_seen, res, outcome, cvars>>

\* lines 272-278
CheckTermination ==
    /\ pc = "check_termination"
    /\ steps' = Append(steps, "check_optimal_termination")
    /\ outcome' = IF check_optimal_termination(res) THEN "returned"
                  ELSE "InitializationError"
    /\ pc' = "idle"
    /\ UNCHANGED <<tvars, svars, flags, dof_seen, res, cvars>>

(* what the caller does to the block between calls *)

ToggleFixedOut ==
    /\ pc = "idle" /\ edits < MaxEdits
    /\ \E v \in OutVars :
          fixed_out' = IF v \in fixed_out THEN fixed_out \ {v} ELSE fixed_out \cup {v}
    /\ edits' = edits + 1
    /\ UNCHANGED <<tvars, ivars, cvars, fixed_in, active, free_other>>

ToggleActive ==
    /\ pc = "idle" /\ edits < MaxEdits
    /\ \E c \in Constraints :
          active' = IF c \in active THEN active \ {c} ELSE active \cup {c}
    /\ edits' = edits + 1
    /\ UNCHANGED <<tvars, ivars, cvars, fixed_in, fixed_out, free_other>>

ToggleFixedIn ==
    /\ pc = "idle" /\ edits < MaxEdits
    /\ \E v \in InVars : fixed_in' = [fixed_in EXCEPT ![v] = ~fixed_in[v]]
    /\ edits' = edits + 1
    /\ UNCHANGED <<tvars, ivars, cvars, fixed_out, active, free_other>>

SetFreeOther ==
    /\ pc = "idle" /\ edits < MaxEdits
    /\ \E n \in (0..MaxOther) \ {free_other} : free_other' = n
    /\ edits' = edits + 1
    /\ UNCHANGED <<tvars, ivars, cvars, fixed_in, fixed_out, active>>

----------------------------------------------------------------------------
(* CustomCosting.cost_custom_vessel                                        *)

\* largest number_of_units a caller passes
MaxUnits == 3

Materials == {"carbonsteel", "stainlessteel", "aluminum", "titanium"}

Years == {"2021", "2018", "1066"}

\* volume_per_unit in m**3
Volumes == {Dec(500, 0), Dec(1000, 0), Dec(32000, 0)}

\* water_injection_rate_per_unit in m**3/s
Rates == {Dec(1, 0), Dec(2, 0)}

CostVars == {"capital_cost_per_unit", "capital_cost",
             "fixed_operating_cost_per_unit", "fixed_operating_cost",
             "variable_operating_cost_per_unit", "variable_operating_cost"}

\* the components cost_custom_vessel declares, in order
CostDeclOrder ==
    <<"number_of_units",
      "capital_cost_per_unit", "capital_cost_per_unit_eq",
      "capital_cost", "capital_cost_constraint",
      "fixed_operating_cost_per_unit", "fixed_operating_cost_per_unit_eq",
      "fixed_operating_cost", "fixed_operating_cost_constraint",
      "variable_operating_cost_per_unit", "variable_operating_cost_per_unit_eq",
      "variable_operating_cost", "variable_operating_cost_constraint">>

material_factor_dict ==
    [m \in {"carbonsteel", "stainlessteel", "aluminum"} |->
        CASE m = "carbonsteel"   -> Dec(1, 0)
          [] m = "stainlessteel" -> Dec(15, -1)
          [] m = "aluminum"      -> Dec(2, 0)]

\* plant cost index of the years that have a registered currency unit
CEIndex ==
    [y \in {"2021", "2018"} |-> IF y = "2021" THEN Dec(7080, -1) ELSE Dec(6031, -1)]

\* pyunits.convert of an amount of USD_custom (500/700 * USD_CE500) to
\* MUSD_<year> (1e6 * 500/index * USD_CE500)
USD_custom_to_MUSD(x, year) ==
    Mul(Div(Mul(x, CEIndex[year]), Dec(700, 0)), Dec(1, -6))

Pow5(x) == Mul(Mul(Mul(Mul(x, x), x), x), x)

\* largest r in lo..hi with (r * 10^e)^5 <= y
RECURSIVE Root5In(_, _, _, _)
Root5In(y, e, lo, hi) ==
    IF lo >= hi THEN lo
    ELSE LET mid == (lo + hi + 1) \div 2
         IN  IF DecLeq(Pow5(Dec(mid, e)), y) THEN Root5In(y, e, mid, hi)
             ELSE Root5In(y, e, lo, mid - 1)

\* fifth root of y > 0, four significant digits
Root5(y) ==
    LET g == y.e + NumDigits(y.m) - 1
        q == IF g >= 0 THEN g \div 5 ELSE -((4 - g) \div 5)
    IN  Dec(Root5In(y, q - 3, 1000, 9999), q - 3)

\* x ** 0.6 for x > 0
PowSixTenths(x) == Root5(Mul(Mul(x, x), x))

\* right-hand side of capital_cost_per_unit_eq
CapitalCostPerUnitRhs(a) ==
    USD_custom_to_MUSD(
        Mul(Mul(material_factor_dict[a.material], Dec(10000, 0)),
            PowSixTenths(Div(a.volume_per_unit, Dec(1000, 0)))),
        a.CE_index_year)

\* right-hand side of variable_operating_cost_per_unit_eq: USD_custom/gal
\* times m**3/s, converted to MUSD_<year>/year
VariableCostPerUnitRhs(a) ==
    LET per_gal  == Mul(Dec(190, -5), a.water_injection_rate_per_unit)
        per_m3   == Mul(per_gal, Dec(264172, -3))
        per_year == Mul(per_m3, Dec(315576, 2))
    IN  USD_custom_to_MUSD(per_year, a.CE_index_year)

NoArgs == [none |-> TRUE]

NoParam == [none |-> TRUE]

NoRhs == [none |-> TRUE]

\* position in CostDeclOrder where the call raises, 0 if it does not
CostFailsAt(a) ==
    IF a.CE_index_year \notin DOMAIN CEIndex THEN 1
    ELSE IF a.material \notin DOMAIN material_factor_dict THEN 3
    ELSE 0

\* NumberOfUnitsParam declared mutable
NumberOfUnitsParam_Mutable(n) == [value |-> n, mutable |-> TRUE]

\* line 66: Param(initialize=number_of_units, mutable=False)
NumberOfUnitsParam(n) == [value |-> n, mutable |-> FALSE]

(* cost_custom_vessel(blk, ...): the whole call.  The currency unit is      *)
(* looked up first (line 63); the material factor is looked up inside the   *)
(* rule of capital_cost_per_unit_eq (line 91), after number_of_units and    *)
(* capital_cost_per_unit have been put on the block.                        *)
cost_custom_vessel ==
    /\ cost_status = "unbuilt"
    /\ \E vol \in Volumes, mat \in Materials, rate \in Rates,
          n \in 1..MaxUnits, year \in Years :
          LET a == [volume_per_unit |-> vol, material |-> mat,
                    water_injection_rate_per_unit |-> rate,
                    number_of_units |-> n, CE_index_year |-> year]
              at   == CostFailsAt(a)
              done == IF at = 0 THEN CostDeclOrder ELSE SubSeq(CostDeclOrder, 1, at - 1)
          IN  /\ cost_args' = a
              /\ cost_components' = done
              /\ number_of_units' =
                    IF Has(done, "number_of_units") THEN NumberOfUnitsParam(n)
                    ELSE NoParam
              /\ cost_values' =
                    [v \in CostVars |-> IF Has(done, v) THEN Dec(1000, 0) ELSE NoValue]
              /\ cost_rhs' =
                    IF at = 0
                    THEN [capital |-> CapitalCostPerUnitRhs(a),
                          variable |-> VariableCostPerUnitRhs(a)]
                    ELSE NoRhs
              /\ cost_status' = IF at = 0 THEN "built" ELSE "failed"
              /\ cost_error' =
                    IF at = 0 THEN "none"
                    ELSE IF at = 1 THEN "AttributeError" ELSE "KeyError"
    /\ UNCHANGED <<tvars, svars, ivars>>

\* the rules of the constraints, each giving the value its left-hand side
\* must take on the values val of the other variables
capital_cost_constraint(val) ==
    Mul(val["capital_cost_per_unit"], Dec(number_of_units.value, 0))

\* fixed_operating_cost_per_unit_eq taking 5% of the cost of one unit
fixed_operating_cost_per_unit_eq_PerUnit(val) ==
    Mul(Dec(5, -2), val["capital_cost_per_unit"])

fixed_operating_cost_per_unit_eq(val) ==
    Mul(Dec(5, -2), val["capital_cost"])

fixed_operating_cost_constraint(val) ==
    Mul(val["fixed_operating_cost_per_unit"], Dec(number_of_units.value, 0))

variable_operating_cost_constraint(val) ==
    Mul(val["variable_operating_cost_per_unit"], Dec(number_of_units.value, 0))

\* the values that satisfy the six constraints of the block
CostSolution ==
    LET v1 == [cost_values EXCEPT !["capital_cost_per_unit"] = cost_rhs.capital,
                                  !["variable_operating_cost_per_unit"] = cost_rhs.variable]
        v2 == [v1 EXCEPT !["capital_cost"] = capital_cost_constraint(v1),
                         !["variable_operating_cost"] = variable_operating_cost_constraint(v1)]
        v3 == [v2 EXCEPT !["fixed_operating_cost_per_unit"] =
                             fixed_operating_cost_per_unit_eq(v2)]
    IN  [v3 EXCEPT !["fixed_operating_cost"] = fixed_operating_cost_constraint(v3)]

\* the costing block is solved: the variables take the values the
\* constraints give them
SolveCosting ==
    /\ cost_status \in {"built", "solved"}
    /\ cost_values' = CostSolution
    /\ cost_status' = "solved"
    /\ UNCHANGED <<tvars, svars, ivars, cost_args, cost_components,
                   number_of_units, cost_rhs, cost_error>>

\* a later assignment to blk.number_of_units: a Param that is not mutable
\* refuses it
SetNumberOfUnits ==
    /\ cost_status \in {"built", "solved"}
    /\ \E n \in 1..MaxUnits :
          IF number_of_units.mutable
          THEN /\ number_of_units' = [number_of_units EXCEPT !.value = n]
               /\ cost_error' = "none"
          ELSE /\ number_of_units' = number_of_units
               /\ cost_error' = "TypeError"
    /\ UNCHANGED <<tvars, svars, ivars, cost_args, cost_components,
                   cost_rhs, cost_values, cost_status>>

----------------------------------------------------------------------------
(* The upstream values change, and the built block is solved               *)

\* the caller gives one variable of the upstream state block another value
SetUpstream ==
    /\ build_status = "built"
    /\ pc = "idle" /\ edits < MaxEdits
    /\ \E t \in Time, v \in FlowValues \ {NoValue} :
          \/ properties_in' = [properties_in EXCEPT ![t].flow_vol = v]
          \/ \E sp \in Species :
                properties_in' = [properties_in EXCEPT ![t].flow_mass[sp] = v]
    /\ properties_in' # properties_in
    /\ edits' = edits + 1
    /\ UNCHANGED <<in_units, properties_out, components, rhs, build_status,
                   fixed_in, fixed_out, active, free_other, ivars, cvars>>

\* line 268 alone: the built block is solved to optimality with the upstream
\* variables fixed, as they are under the hold
SolveBlock ==
    /\ build_status = "built"
    /\ pc = "idle"
    /\ \A t \in Time : properties_in[t].flow_vol # NoValue
    /\ Feasible(properties_out, properties_in, in_units)
    /\ properties_out' = SolveValues(properties_out, properties_in, in_units)
    /\ UNCHANGED <<in_units, properties_in, components, rhs, build_status,
                   svars, ivars, cvars>>

----------------------------------------------------------------------------
(* Initial states and specifications                                       *)

OutInit ==
    [t \in Time |-> [flow_mass |-> Dec(1, 0),
                     log10_molality_comp |-> [i \in Ions |-> Dec(0, 0)]]]

StructureInit ==
    /\ fixed_out = {}
    /\ active = Constraints
    /\ free_other = 0
    /\ edits = 0

CallInit ==
    /\ pc = "idle"
    /\ flags = NoFlags
    /\ dof_seen = <<>>
    /\ res = "none"
    /\ outcome = "none"
    /\ steps = <<>>

CostInit ==
    /\ cost_args = NoArgs
    /\ cost_components = <<>>
    /\ number_of_units = NoParam
    /\ cost_rhs = NoRhs
    /\ cost_values = [v \in CostVars |-> NoValue]
    /\ cost_status = "unbuilt"
    /\ cost_error = "none"

\* a translator that build() has not run on yet, over any upstream values
InitBuild ==
    /\ in_units \in UnitOptions
    /\ properties_in \in [Time -> [flow_vol : FlowValues,
                                   flow_mass : [Species -> FlowValues]]]
    /\ properties_out = OutInit
    /\ components = <<>>
    /\ rhs = Unbuilt
    /\ build_status = "unbuilt"
    /\ fixed_in = [v \in InVars |-> FALSE]
    /\ StructureInit
    /\ CallInit
    /\ CostInit

NextBuild == Build \/ SetUpstream \/ SolveBlock

SpecBuild == InitBuild /\ [][NextBuild]_vars

\* a translator built over positive upstream flows, before its first
\* initialize_build
InitInit ==
    /\ in_units \in UnitOptions
    /\ properties_in \in [Time -> [flow_vol : {Dec(1, 0), Dec(2, 0)},
                                   flow_mass : [Species -> {Dec(1, 0)}]]]
    /\ properties_out = OutInit
    /\ components = DeclOrder
    /\ rhs = [c \in MolalityConstraints |->
                [t \in Time |-> RuleRhs(c, properties_in, in_units, t).val]]
    /\ build_status = "built"
    /\ fixed_in \in [InVars -> BOOLEAN]
    /\ StructureInit
    /\ CallInit
    /\ CostInit

NextInit ==
    \/ InitializeBuild \/ InitializeIn \/ InitializeOut \/ CheckDoF
    \/ Solve \/ ReleaseState \/ CheckTermination
    \/ ToggleFixedOut \/ ToggleActive \/ ToggleFixedIn \/ SetFreeOther

SpecInit == InitInit /\ [][NextInit]_vars

\* a costing block cost_custom_vessel has not run on yet
InitCost ==
    /\ in_units \in {[vol |-> "L/s", mass |-> "kg/s"]}
    /\ properties_in = [t \in Time |-> [flow_vol |-> Dec(1, 0),
                                        flow_mass |-> [sp \in Species |-> Dec(1, 0)]]]
    /\ properties_out = OutInit
    /\ components = <<>>
    /\ rhs = Unbuilt
    /\ build_status = "unbuilt"
    /\ fixed_in = [v \in InVars |-> FALSE]
    /\ StructureInit
    /\ CallInit
    /\ CostInit

NextCost == cost_custom_vessel \/ SolveCosting \/ SetNumberOfUnits

SpecCost == InitCost /\ [][NextCost]_vars

Init == InitBuild

Next == NextBuild

Spec == SpecBuild

----------------------------------------------------------------------------
(* Properties of initialize_build (checked under SpecInit)                 *)

DofError == "Exception: degrees of freedom were not 0"

FullSteps ==
    <<"properties_in.initialize(hold_state=True)", "properties_out.initialize",
      "degrees_of_freedom", "opt.solve", "properties_in.release_state",
      "check_optimal_termination">>

IsPrefix(a, b) == Len(a) <= Len(b) /\ a = SubSeq(b, 1, Len(a))

Index(seq, x) == Min({i \in 1..Len(seq) : seq[i] = x})

\* C1: whenever degrees_of_freedom is not exactly zero after both state
\* blocks have been initialized, the call ends with the degrees-of-freedom
\* error and the solver's solve has been called zero times in that run.
C1_DofErrorBeforeSolver ==
    (dof_seen # <<>> /\ dof_seen[1] # 0) =>
        /\ outcome = DofError
        /\ pc = "idle"
        /\ Count(steps, "opt.solve") = 0
        /\ steps = SubSeq(FullSteps, 1, 3)

C1_Witness ==
    /\ pc = "idle"
    /\ outcome = DofError
    /\ dof_seen # <<>>
    /\ dof_seen[1] < 0

\* C2: once the solver has been invoked the upstream hold is released with
\* the token properties_in.initialize returned, whatever the result says, and
\* InitializationError (raised when the result is not optimal) comes only
\* after that release.
C2_ReleaseBeforeConvergenceError ==
    /\ (Has(steps, "opt.solve") /\ ~Has(steps, "properties_in.release_state"))
          => pc = "release_state"
    /\ pc = "check_termination" =>
          /\ Has(steps, "properties_in.release_state")
          /\ \A v \in InVars : fixed_in[v] = flags[v]
    /\ outcome = "InitializationError" =>
          /\ ~check_optimal_termination(res)
          /\ Has(steps, "opt.solve")
          /\ Has(steps, "properties_in.release_state")
          /\ Index(steps, "opt.solve") < Index(steps, "properties_in.release_state")
          /\ Index(steps, "properties_in.release_state") = Len(steps) - 1
    /\ (pc = "idle" /\ Has(steps, "opt.solve") /\ ~check_optimal_termination(res))
          => outcome = "InitializationError"

C2_Witness ==
    /\ pc = "idle"
    /\ outcome = "InitializationError"
    /\ res = "infeasible"
    /\ edits = 0
    /\ \E v \in InVars : ~flags[v] /\ ~fixed_in[v]

\* C7: every run makes its calls in the one order upstream initialize (with
\* hold_state=True), downstream initialize, degrees-of-freedom check, solver;
\* the solver is called at most once and nothing is tried again; a failed
\* call ends in the degrees-of-freedom error (after the check) or in
\* InitializationError (after the whole sequence), two different errors.
C7_FixedOrderNoRetry ==
    /\ IsPrefix(steps, FullSteps)
    /\ Count(steps, "opt.solve") <= 1
    /\ pc \in {"initialize_out", "check_dof", "solve", "release_state"}
          => \A v \in InVars : fixed_in[v]
    /\ outcome \in {"none", "running", "returned", DofError, "InitializationError"}
    /\ outcome = DofError => steps = SubSeq(FullSteps, 1, 3)
    /\ outcome = "InitializationError" => steps = FullSteps
    /\ outcome = "returned" => steps = FullSteps /\ check_optimal_termination(res)
    /\ (pc = "idle" /\ steps # <<>>) => outcome \notin {"none", "running"}

C7_Witness ==
    /\ pc = "idle"
    /\ outcome = "returned"
    /\ steps = FullSteps
    /\ edits = MaxEdits

\* C9: when initialize_build fails with the degrees-of-freedom error,
\* release_state has not been called and the upstream state variables are
\* left fixed by the hold; release_state is called only in runs that reached
\* the solver.
C9_HoldKeptOnDofError ==
    /\ [][(pc = "check_dof" /\ pc' = "idle") =>
             /\ outcome' = DofError
             /\ ~Has(steps', "properties_in.release_state")
             /\ \A v \in InVars : fixed_in'[v]]_vars
    /\ [](Has(steps, "properties_in.release_state") => Has(steps, "opt.solve"))

C9_Witness ==
    /\ pc = "idle"
    /\ outcome = DofError
    /\ ~Has(steps, "properties_in.release_state")
    /\ \A v \in InVars : fixed_in[v]
    /\ \E v \in InVars : ~flags[v]

----------------------------------------------------------------------------
(* Properties of build (checked under SpecBuild)                           *)

Built == build_status = "built"

\* C6: with pH 2.5 and Kw 1e-14 the right-hand sides of the hydrogen and
\* hydroxide constraints are -2.5 and -11.5 at every time index, whatever the
\* upstream flow_vol and flow_mass values are (so any two builds that differ
\* only in those values have the same two targets), and a solve gives the
\* downstream variables those values.
C6_FixedHydrogenHydroxide ==
    /\ Built => \A t \in Time :
          /\ rhs["eq_hydrogen_molality"][t] = Dec(-25, -1)
          /\ rhs["eq_hydroxide_molality"][t] = Dec(-115, -1)
    /\ \A t \in Time :
          /\ properties_out[t].log10_molality_comp["H^+"] \in {Dec(0, 0), Dec(-25, -1)}
          /\ properties_out[t].log10_molality_comp["OH^-"] \in {Dec(0, 0), Dec(-115, -1)}

C6_Witness ==
    /\ Built
    /\ properties_in[0].flow_vol = Dec(2, 0)
    /\ properties_in[0].flow_mass["Al"] = Dec(-1, 0)
    /\ properties_out[0].log10_molality_comp["H^+"] = Dec(-25, -1)
    /\ properties_out[0].log10_molality_comp["OH^-"] = Dec(-115, -1)

SpeciesConstraints == {"eq_aluminum_molality", "eq_calcium_molality", "eq_iron_molality"}

\* C8: the right-hand side of each of the aluminum, calcium and iron
\* constraints is the number computed when build() ran, from the upstream
\* values of that moment; later changes of upstream flow_mass or flow_vol
\* leave it as it is, and a solve gives log10_molality_comp that number,
\* while it gives flow_mass the solvent mass flow of the current flow_vol.
C8_SnapshotTargets ==
    [][/\ (build_status = "unbuilt" /\ Built') =>
             \A c \in SpeciesConstraints : \A t \in Time :
                rhs'[c][t] = RuleRhs(c, properties_in, in_units, t).val
       /\ Built => rhs' = rhs
       /\ (Built /\ properties_out' # properties_out) =>
             \A t \in Time :
                /\ properties_out'[t].flow_mass =
                      solvent_mass_flow(properties_in, in_units, t)
                /\ \A c \in SpeciesConstraints :
                      properties_out'[t].log10_molality_comp[ConstraintVar[c]] = rhs[c][t]
      ]_vars

C8_Witness ==
    /\ Built
    /\ edits > 0
    /\ RuleRhs("eq_aluminum_molality", properties_in, in_units, 0).err = "none"
    /\ RuleRhs("eq_aluminum_molality", properties_in, in_units, 0).val
          # rhs["eq_aluminum_molality"][0]
    /\ properties_out[0].log10_molality_comp["Al^3+"] = rhs["eq_aluminum_molality"][0]
    /\ properties_out[0].flow_mass = solvent_mass_flow(properties_in, in_units, 0)
    /\ properties_out[0].flow_mass # Dec(1, 0)

HasValues(t) ==
    /\ properties_in[t].flow_vol # NoValue
    /\ \A sp \in Species : properties_in[t].flow_mass[sp] # NoValue

AllPositive(t) ==
    /\ HasValues(t)
    /\ properties_in[t].flow_vol.m > 0
    /\ \A sp \in Species : properties_in[t].flow_mass[sp].m > 0

SameSign(t) ==
    /\ HasValues(t)
    /\ properties_in[t].flow_vol.m # 0
    /\ \A sp \in Species :
          Sign(properties_in[t].flow_mass[sp].m) = Sign(properties_in[t].flow_vol.m)

\* C10 as stated: build succeeds only if flow_vol and the flow_mass of Al, Ca
\* and Fe are all strictly positive at build time, for every time index.
C10_Original ==
    (Built /\ edits = 0) => \A t \in Time : AllPositive(t)

\* C10 as amended: build succeeds exactly when, at build time and for every
\* time index, flow_vol and the three flow_mass have values, flow_vol is not
\* zero and each flow_mass is nonzero with the sign of flow_vol (each ratio
\* molar flow / solvent mass flow is positive); otherwise build ends with the
\* error raised while log10(value(...)) is evaluated: with all values present,
\* ZeroDivisionError when flow_vol is zero and log10's ValueError when it is
\* not.
C10_SameSignBuilds ==
    (build_status # "unbuilt" /\ edits = 0) =>
        /\ Built <=> \A t \in Time : SameSign(t)
        /\ ~Built => build_status \in {"ValueError: no value", "ZeroDivisionError",
                                       "ValueError: math domain error"}
        /\ (\A t \in Time : HasValues(t) /\ properties_in[t].flow_vol.m = 0)
              => build_status = "ZeroDivisionError"
        /\ (~Built /\ \A t \in Time : HasValues(t) /\ properties_in[t].flow_vol.m # 0)
              => build_status = "ValueError: math domain error"
        /\ ~Built => Len(components) < Len(DeclOrder)

C10_Witness ==
    /\ Built
    /\ edits = 0
    /\ properties_in[0].flow_vol = Dec(-1, 0)
    /\ \A sp \in Species : properties_in[0].flow_mass[sp] = Dec(-1, 0)

----------------------------------------------------------------------------
(* Properties of cost_custom_vessel (checked under SpecCost)               *)

\* C3 as stated: an unsupported material raises the lookup error and leaves
\* none of the parameters or variables of cost_custom_vessel on the block.
C3_NothingBuiltOnKeyError ==
    cost_error = "KeyError" =>
        /\ cost_components = <<>>
        /\ number_of_units = NoParam
        /\ \A v \in CostVars : cost_values[v] = NoValue

UnitsDec == Dec(number_of_units.value, 0)

\* C4: fixed_operating_cost_per_unit is 0.05 times capital_cost, the
\* aggregated cost, so that fixed_operating_cost is
\* 0.05 * capital_cost_per_unit * n * n for every number_of_units n.
C4_FixedCostFromAggregate ==
    cost_status = "solved" =>
        /\ cost_values["fixed_operating_cost_per_unit"] =
              Mul(Dec(5, -2), cost_values["capital_cost"])
        /\ cost_values["fixed_operating_cost"] =
              Mul(Mul(Mul(Dec(5, -2), cost_values["capital_cost_per_unit"]),
                      UnitsDec), UnitsDec)
        /\ number_of_units.value > 1 =>
              cost_values["fixed_operating_cost_per_unit"] #
                 Mul(Dec(5, -2), cost_values["capital_cost_per_unit"])

C4_Witness ==
    /\ cost_status = "solved"
    /\ number_of_units.value = MaxUnits
    /\ cost_args.material = "stainlessteel"

\* C5: every aggregated cost is its per-unit cost times number_of_units, and
\* number_of_units keeps the value cost_custom_vessel was given whatever is
\* done to the block later.
C5_AggregateIsPerUnitTimesUnits ==
    /\ cost_status \in {"built", "solved"} =>
          number_of_units.value = cost_args.number_of_units
    /\ cost_status = "solved" =>
          LET n == Dec(cost_args.number_of_units, 0)
          IN  /\ cost_values["capital_cost"] =
                    Mul(cost_values["capital_cost_per_unit"], n)
              /\ cost_values["fixed_operating_cost"] =
                    Mul(cost_values["fixed_operating_cost_per_unit"], n)
              /\ cost_values["variable_operating_cost"] =
                    Mul(cost_values["variable_operating_cost_per_unit"], n)
              /\ cost_values["capital_cost_per_unit"] = cost_rhs.capital
              /\ cost_values["variable_operating_cost_per_unit"] = cost_rhs.variable

C5_Witness ==
    /\ cost_status = "solved"
    /\ cost_error = "TypeError"
    /\ number_of_units.value = 2
    /\ cost_args.volume_per_unit = Dec(500, 0)

====
